---- MODULE Spec2Model ----
(***************************************************************************)
(* snippetbox: the request-logging decorator of cmd/web/logger.go          *)
(* (ResponseRecorder, HttpLogger) and the routing table of                 *)
(* cmd/web/routes.go.                                                      *)
(*                                                                         *)
(* Spec       : NumRequests requests served concurrently through one       *)
(*              HttpLogger(handler); the wrapped handler is arbitrary and  *)
(*              is modelled by the calls it may make on the decorating     *)
(*              writer.                                                    *)
(* SpecOne    : the same steps for a single request through                *)
(*              HttpLogger(handler).                                       *)
(* SpecRoutes : the dispatch of one request at a time by the handler that  *)
(*              routes() builds.                                           *)
(***************************************************************************)
EXTENDS Integers, Sequences

VARIABLES pc, req, rec, uw, hCalls, invoked, raised, propagated,
          hdrSet, heap, log, rt

vars == <<pc, req, rec, uw, hCalls, invoked, raised, propagated,
          hdrSet, heap, log, rt>>

loggerVars == <<pc, req, rec, uw, hCalls, invoked, raised, propagated,
                hdrSet, heap, log>>

(***************************************************************************)
(* Bounds of the model.                                                    *)
(***************************************************************************)
\* requests in flight through the same HttpLogger handler
NumRequests == 2
\* WriteHeader / Write calls one handler invocation makes
MaxCalls == 2
\* byte buffers of the process that handlers format their output in
NumBufs == 1

Requests == 1 .. NumRequests
Bufs == 1 .. NumBufs

(***************************************************************************)
(* net/http constants used by logger.go.                                   *)
(***************************************************************************)
\* http.StatusOK, logger.go:35 and logger.go:41
StatusOK == 200

\* the status codes a handler passes to WriteHeader in this model
Statuses == {StatusOK, 201, 302, 500}

\* http.StatusText, logger.go:49
StatusText(code) ==
    CASE code = StatusOK -> "OK"
      [] code = 201 -> "Created"
      [] code = 302 -> "Found"
      [] code = 500 -> "Internal Server Error"
      [] OTHER -> ""

\* the requests that arrive: req.Method and req.RequestURI (logger.go:46-47)
NoReq == [Method |-> "", RequestURI |-> ""]
RequestSet == {[Method |-> "GET", RequestURI |-> "/"],
               [Method |-> "POST", RequestURI |-> "/snippet/create"]}

\* the byte sequences handlers write
Payloads == {"ok", "boom"}

(***************************************************************************)
(* Memory.  A []byte is a slice header (backing buffer, length); the bytes *)
(* it denotes are read from the buffer at the time of the read.  heap[b]   *)
(* holds the bytes of buffer b and, as history, the request whose handler  *)
(* filled it last.                                                         *)
(***************************************************************************)
NilSlice == [buf |-> 0, len |-> 0]

\* filling a buffer from its start overwrites a prefix and leaves the rest
Fill(bytes, data) ==
    IF Len(data) >= Len(bytes) THEN data
    ELSE data \o SubSeq(bytes, Len(data) + 1, Len(bytes))

\* the bytes a slice denotes in memory h
Deref(h, s) == IF s.buf = 0 THEN "" ELSE SubSeq(h[s.buf].bytes, 1, s.len)

\* the request whose handler last filled the buffer behind a slice
Origin(h, s) == IF s.buf = 0 THEN 0 ELSE h[s.buf].by

(***************************************************************************)
(* The underlying http.ResponseWriter (rec.ResponseWriter): the status     *)
(* line is committed by the first WriteHeader, or as 200 by a Write that   *)
(* no WriteHeader preceded; later WriteHeader calls change nothing.        *)
(* calls is the sequence of calls it received.                             *)
(***************************************************************************)
NewWriter == [status |-> 0, header |-> {}, calls |-> <<>>]

WriteHeaderCall(s) == [op |-> "WriteHeader", code |-> s, bytes |-> "", n |-> 0, err |-> "nil"]
WriteCall(data, res) == [op |-> "Write", code |-> 0, bytes |-> data, n |-> res.n, err |-> res.err]

\* the (n, err) results a Write of data on the connection can have
WriteResults(data) == {[n |-> Len(data), err |-> "nil"], [n |-> 0, err |-> "broken pipe"]}

UwApply(w, c) ==
    [w EXCEPT !.status = IF w.status # 0 THEN w.status
                         ELSE IF c.op = "WriteHeader" THEN c.code ELSE StatusOK,
              !.calls = Append(w.calls, c)]

RECURSIVE UwApplyAll(_, _)
UwApplyAll(w, cs) == IF cs = <<>> THEN w ELSE UwApplyAll(UwApply(w, Head(cs)), Tail(cs))

\* what the client was sent as status once the request is over
Committed(w) == IF w.status = 0 THEN StatusOK ELSE w.status

(***************************************************************************)
(* ResponseRecorder, logger.go:9-28.  Each method yields the recorder      *)
(* after the call and the calls it forwards to rec.ResponseWriter.         *)
(***************************************************************************)
NewRecorder == [StatusCode |-> StatusOK, body |-> NilSlice]

\* Header(), logger.go:15-18: panics, touches nothing
RecorderHeader(r) == [panic |-> "implement me", fwd |-> <<>>]

\* a WriteHeader that records the code and does not pass it on
RecorderWriteHeader_NotForwarded(r, statusCode) ==
    [rec |-> [r EXCEPT !.StatusCode = statusCode],
     fwd |-> <<>>]

\* WriteHeader, logger.go:20-23
RecorderWriteHeader(r, statusCode) ==
    [rec |-> [r EXCEPT !.StatusCode = statusCode],
     fwd |-> <<WriteHeaderCall(statusCode)>>]

\* a Write that also records the implicit 200 of a body write
RecorderWrite_SetsStatus(r, slice, data, res) ==
    [rec |-> [r EXCEPT !.body = slice, !.StatusCode = StatusOK],
     fwd |-> <<WriteCall(data, res)>>,
     ret |-> res]

\* Write, logger.go:25-28: slice is the argument, data the bytes it denotes
\* at the call, res what rec.ResponseWriter.Write returns
RecorderWrite(r, slice, data, res) ==
    [rec |-> [r EXCEPT !.body = slice],
     fwd |-> <<WriteCall(data, res)>>,
     ret |-> res]

(***************************************************************************)
(* HttpLogger, logger.go:30-54.                                            *)
(***************************************************************************)
\* a closure that recovers the handler's panic and goes on to log
HandlerPanicked_Recovered(v) == [pc |-> "Returned", propagated |-> "none"]

\* logger.go:37 runs the handler with no deferred recover around it: a
\* panic of the handler leaves the closure, lines 38-51 do not run
HandlerPanicked(v) == [pc |-> "Panicked", propagated |-> v]

\* error severity for 4xx and 5xx only
Level_ErrorsOnly(statusCode) == IF statusCode >= 400 THEN "error" ELSE "info"

\* logger.go:40-43
Level(statusCode) == IF statusCode # StatusOK THEN "error" ELSE "info"

\* logger.go:40-51; req and bodyFrom are history, not fields of the record
Record(r, q, rc, h) ==
    [req |-> r,
     level |-> Level(rc.StatusCode),
     hasBody |-> rc.StatusCode # StatusOK,
     body |-> IF rc.StatusCode # StatusOK THEN Deref(h, rc.body) ELSE "",
     bodyFrom |-> IF rc.StatusCode # StatusOK THEN Origin(h, rc.body) ELSE 0,
     protocol |-> "http",
     method |-> q.Method,
     path |-> q.RequestURI,
     status_code |-> rc.StatusCode,
     status_text |-> StatusText(rc.StatusCode)]

(***************************************************************************)
(* Actions of Spec.                                                        *)
(***************************************************************************)
LoggerInit ==
    /\ pc = [r \in Requests |-> "Start"]
    /\ req = [r \in Requests |-> NoReq]
    /\ rec = [r \in Requests |-> NewRecorder]
    /\ uw = [r \in Requests |-> NewWriter]
    /\ hCalls = [r \in Requests |-> <<>>]
    /\ invoked = [r \in Requests |-> <<>>]
    /\ raised = [r \in Requests |-> "none"]
    /\ propagated = [r \in Requests |-> "none"]
    /\ hdrSet = [r \in Requests |-> {}]
    /\ heap = [b \in Bufs |-> [bytes |-> "", by |-> 0]]
    /\ log = <<>>

RoutesIdle == [phase |-> "idle", method |-> "", path |-> "", out |-> [kind |-> "none", path |-> ""]]

Init == LoggerInit /\ rt = RoutesIdle

\* logger.go:31-37: the closure is entered with request q, builds its
\* recorder and calls handler.ServeHTTP(rec, req)
Enter(r, q) ==
    /\ pc[r] = "Start"
    /\ pc' = [pc EXCEPT ![r] = "Delegated"]
    /\ req' = [req EXCEPT ![r] = q]
    /\ rec' = [rec EXCEPT ![r] = NewRecorder]
    /\ invoked' = [invoked EXCEPT ![r] = Append(@, q)]
    /\ UNCHANGED <<uw, hCalls, raised, propagated, hdrSet, heap, log, rt>>

\* the handler calls w.WriteHeader(s)
HWriteHeader(r, s) ==
    /\ pc[r] = "Delegated"
    /\ Len(hCalls[r]) < MaxCalls
    /\ LET o == RecorderWriteHeader(rec[r], s) IN
         /\ rec' = [rec EXCEPT ![r] = o.rec]
         /\ uw' = [uw EXCEPT ![r] = UwApplyAll(@, o.fwd)]
    /\ hCalls' = [hCalls EXCEPT ![r] = Append(@, WriteHeaderCall(s))]
    /\ UNCHANGED <<pc, req, invoked, raised, propagated, hdrSet, heap, log, rt>>

\* the handler formats data in buffer b and calls w.Write(b[:len(data)]);
\* the connection answers res
HWrite(r, b, data, res) ==
    /\ pc[r] = "Delegated"
    /\ Len(hCalls[r]) < MaxCalls
    /\ LET slice == [buf |-> b, len |-> Len(data)]
           o == RecorderWrite(rec[r], slice, data, res) IN
         /\ rec' = [rec EXCEPT ![r] = o.rec]
         /\ uw' = [uw EXCEPT ![r] = UwApplyAll(@, o.fwd)]
         /\ hCalls' = [hCalls EXCEPT ![r] = Append(@, WriteCall(data, o.ret))]
    /\ heap' = [heap EXCEPT ![b] = [bytes |-> Fill(@.bytes, data), by |-> r]]
    /\ UNCHANGED <<pc, req, invoked, raised, propagated, hdrSet, log, rt>>

\* the handler formats something else in buffer b, which it used before,
\* without writing it
HReuse(r, b, data) ==
    /\ pc[r] = "Delegated"
    /\ heap[b].by = r
    /\ heap' = [heap EXCEPT ![b] = [bytes |-> Fill(@.bytes, data), by |-> r]]
    /\ UNCHANGED <<pc, req, rec, uw, hCalls, invoked, raised, propagated, hdrSet, log, rt>>

\* the handler calls w.Header().Set(h, ...)
HHeaderSet(r, h) ==
    /\ pc[r] = "Delegated"
    /\ hdrSet[r] = {}
    /\ hdrSet' = [hdrSet EXCEPT ![r] = {h}]
    /\ LET o == RecorderHeader(rec[r])
           p == HandlerPanicked(o.panic) IN
         /\ raised' = [raised EXCEPT ![r] = o.panic]
         /\ uw' = [uw EXCEPT ![r] = UwApplyAll(@, o.fwd)]
         /\ pc' = [pc EXCEPT ![r] = p.pc]
         /\ propagated' = [propagated EXCEPT ![r] = p.propagated]
    /\ UNCHANGED <<req, rec, hCalls, invoked, heap, log, rt>>

\* the handler panics
HPanic(r) ==
    /\ pc[r] = "Delegated"
    /\ raised' = [raised EXCEPT ![r] = "handler panic"]
    /\ LET p == HandlerPanicked("handler panic") IN
         /\ pc' = [pc EXCEPT ![r] = p.pc]
         /\ propagated' = [propagated EXCEPT ![r] = p.propagated]
    /\ UNCHANGED <<req, rec, uw, hCalls, invoked, hdrSet, heap, log, rt>>

\* handler.ServeHTTP returns, logger.go:37-38
HReturn(r) ==
    /\ pc[r] = "Delegated"
    /\ pc' = [pc EXCEPT ![r] = "Returned"]
    /\ UNCHANGED <<req, rec, uw, hCalls, invoked, raised, propagated, hdrSet, heap, log, rt>>

\* logger.go:40-51
Emit(r) ==
    /\ pc[r] = "Returned"
    /\ log' = Append(log, Record(r, req[r], rec[r], heap))
    /\ pc' = [pc EXCEPT ![r] = "Logged"]
    /\ UNCHANGED <<req, rec, uw, hCalls, invoked, raised, propagated, hdrSet, heap, rt>>

HeaderNames == {"Content-Type"}

Next ==
    \/ \E r \in Requests, q \in RequestSet : Enter(r, q)
    \/ \E r \in Requests, s \in Statuses : HWriteHeader(r, s)
    \/ \E r \in Requests, b \in Bufs, data \in Payloads :
          \E res \in WriteResults(data) : HWrite(r, b, data, res)
    \/ \E r \in Requests, b \in Bufs, data \in Payloads : HReuse(r, b, data)
    \/ \E r \in Requests, h \in HeaderNames : HHeaderSet(r, h)
    \/ \E r \in Requests : HPanic(r)
    \/ \E r \in Requests : HReturn(r)
    \/ \E r \in Requests : Emit(r)

Spec == Init /\ [][Next]_vars

\* one request through HttpLogger(handler)
NextOne ==
    \/ \E q \in RequestSet : Enter(1, q)
    \/ \E s \in Statuses : HWriteHeader(1, s)
    \/ \E b \in Bufs, data \in Payloads :
          \E res \in WriteResults(data) : HWrite(1, b, data, res)
    \/ \E b \in Bufs, data \in Payloads : HReuse(1, b, data)
    \/ \E h \in HeaderNames : HHeaderSet(1, h)
    \/ HPanic(1)
    \/ HReturn(1)
    \/ Emit(1)

SpecOne == Init /\ [][NextOne]_vars

(***************************************************************************)
(* routes(), routes.go:11-43.  Paths and patterns are strings.             *)
(***************************************************************************)
HasPrefix(s, prefix) == Len(s) >= Len(prefix) /\ SubSeq(s, 1, Len(prefix)) = prefix

\* strings.TrimPrefix
TrimPrefix(s, prefix) ==
    IF HasPrefix(s, prefix) THEN SubSeq(s, Len(prefix) + 1, Len(s)) ELSE s

Char(s, i) == SubSeq(s, i, i)

\* the text of s up to its first "/" (all of s when it has none)
RECURSIVE Segment(_)
Segment(s) ==
    IF s = "" \/ Char(s, 1) = "/" THEN ""
    ELSE Char(s, 1) \o Segment(Tail(s))

\* httprouter's match of a registered pattern against a request path: text
\* matches itself, ":name" matches one non-empty segment, "*name" the rest
RECURSIVE Match(_, _)
Match(pattern, path) ==
    IF pattern = "" THEN path = ""
    ELSE IF Char(pattern, 1) = "*" THEN TRUE
    ELSE IF Char(pattern, 1) = ":"
      THEN /\ Segment(path) # ""
           /\ Match(SubSeq(pattern, Len(Segment(pattern)) + 1, Len(pattern)),
                    SubSeq(path, Len(Segment(path)) + 1, Len(path)))
    ELSE /\ path # ""
         /\ Char(pattern, 1) = Char(path, 1)
         /\ Match(Tail(pattern), Tail(path))

\* http.StripPrefix(prefix, h), routes.go:27: h sees the path without the
\* prefix; a path that does not start with the prefix gets http.NotFound
StripPrefix(prefix, h, path) ==
    IF Len(TrimPrefix(path, prefix)) < Len(path)
    THEN [kind |-> h, path |-> TrimPrefix(path, prefix)]
    ELSE [kind |-> "http.NotFound", path |-> path]

\* the prefix handed to http.StripPrefix, routes.go:27
StaticPrefix == "/static/*filepath"

\* the pattern the file server is registered under, routes.go:27
StaticPattern == "/static/"

\* the routing table, routes.go:27-32
Routes ==
    <<[method |-> "GET", pattern |-> StaticPattern, handler |-> "static"],
      [method |-> "GET", pattern |-> "/", handler |-> "home"],
      [method |-> "GET", pattern |-> "/snippet/view/:id", handler |-> "snippetView"],
      [method |-> "GET", pattern |-> "/snippet/create", handler |-> "snippetCreate"],
      [method |-> "POST", pattern |-> "/snippet/create", handler |-> "snippetCreatePost"]>>

Matching(method, path) ==
    {i \in DOMAIN Routes : Routes[i].method = method /\ Match(Routes[i].pattern, path)}

\* the path with its trailing slash removed, or added
ToggleSlash(path) ==
    IF Len(path) > 1 /\ Char(path, Len(path)) = "/"
    THEN SubSeq(path, 1, Len(path) - 1)
    ELSE path \o "/"

\* the handler a route names, run on the request path
Handle(route, path) ==
    IF route.handler = "static" THEN StripPrefix(StaticPrefix, "fileServer", path)
    ELSE [kind |-> route.handler, path |-> path]

\* httprouter.Router.ServeHTTP with the settings of routes.go:12-22: a
\* matching route of the method runs; else a path that matches with its
\* trailing slash toggled is redirected; else a path that another method
\* serves gets 405; else router.NotFound, which is app.notFound
RouterServeHTTP(method, path) ==
    IF Matching(method, path) # {}
    THEN Handle(Routes[CHOOSE i \in Matching(method, path) : TRUE], path)
    ELSE IF path # "/" /\ Matching(method, ToggleSlash(path)) # {}
    THEN [kind |-> "redirect", path |-> ToggleSlash(path)]
    ELSE IF \E m \in {Routes[i].method : i \in DOMAIN Routes} : Matching(m, path) # {}
    THEN [kind |-> "methodNotAllowed", path |-> path]
    ELSE [kind |-> "app.notFound", path |-> path]

Methods == {"GET", "POST", "PUT"}

Paths == {"/", "/static", "/static/", "/static/css", "/static/css/main.css",
          "/static/js/main.js", "/static/img/logo.png", "/static/*filepath",
          "/static/*filepath/css/main.css", "/statics", "/snippet", "/snippet/create",
          "/snippet/create/", "/snippet/view", "/snippet/view/", "/snippet/view/1",
          "/snippet/view/1/", "/user/login", "/favicon.ico"}

\* a request reaches the handler routes() returned
Arrive(m, p) ==
    /\ rt.phase \in {"idle", "served"}
    /\ rt' = [phase |-> "arrived", method |-> m, path |-> p, out |-> RoutesIdle.out]
    /\ UNCHANGED loggerVars

\* the middleware chain hands it to the router, routes.go:38-41
Serve ==
    /\ rt.phase = "arrived"
    /\ rt' = [rt EXCEPT !.phase = "served", !.out = RouterServeHTTP(rt.method, rt.path)]
    /\ UNCHANGED loggerVars

NextRoutes ==
    \/ \E m \in Methods, p \in Paths : Arrive(m, p)
    \/ Serve

SpecRoutes == Init /\ [][NextRoutes]_vars

(***************************************************************************)
(* Properties.                                                             *)
(***************************************************************************)
\* the records request r emitted
LogOf(r) == SelectSeq(log, LAMBDA e : e.req = r)

WriteHeaders(cs) == SelectSeq(cs, LAMBDA c : c.op = "WriteHeader")
Writes(cs) == SelectSeq(cs, LAMBDA c : c.op = "Write")

\* C1: the status code of every log record is the status code the
\* underlying writer committed for that request (first WriteHeader wins, a
\* Write without WriteHeader commits 200).
C1_LoggedStatusIsCommitted ==
    \A i \in DOMAIN log : log[i].status_code = Committed(uw[log[i].req])

C2_Cases ==
    \A i \in DOMAIN log :
        LET cs == hCalls[log[i].req] IN
        /\ WriteHeaders(cs) = <<>> => log[i].status_code = StatusOK
        /\ (/\ cs # <<>>
            /\ cs[1].op = "WriteHeader"
            /\ \A j \in 2 .. Len(cs) : cs[j].op = "Write")
           => log[i].status_code = cs[1].code

C2_WriteKeepsStatus ==
    \A r \in Requests :
        (/\ Len(hCalls'[r]) = Len(hCalls[r]) + 1
         /\ hCalls'[r][Len(hCalls'[r])].op = "Write")
        => rec'[r].StatusCode = rec[r].StatusCode

\* C2: a request whose handler never sets a status is logged with 200, a
\* request whose handler sets status S and then only writes the body, any
\* number of times, is logged with S, and no Write changes the recorded
\* status.
C2_LoggedStatus == []C2_Cases /\ [][C2_WriteKeepsStatus]_vars

\* a request is logged whose handler set 500 and then wrote a body
C2_Witness ==
    \E i \in DOMAIN log :
        LET cs == hCalls[log[i].req] IN
        /\ Len(cs) = 2
        /\ cs[1].op = "WriteHeader" /\ cs[1].code = 500
        /\ cs[2].op = "Write"
        /\ log[i].status_code = 500

\* C3: a record with a status other than 200 has a body field holding the
\* bytes passed to the last Write of its request, whatever the handler did
\* afterwards; a record with status 200 has no body field.
C3_ErrorBodyIsLastWrite ==
    \A i \in DOMAIN log :
        LET ws == Writes(hCalls[log[i].req]) IN
        /\ log[i].status_code # StatusOK =>
              /\ log[i].hasBody
              /\ ws # <<>> => log[i].body = ws[Len(ws)].bytes
        /\ log[i].status_code = StatusOK => ~log[i].hasBody

\* C4: a request has no record before its handler has finished, never more
\* than one, and exactly one once HttpLogger is done with it, whether the
\* handler returned or panicked.
C4_OneRecordPerRequest ==
    \A r \in Requests :
        /\ Len(LogOf(r)) <= 1
        /\ pc[r] \in {"Start", "Delegated"} => LogOf(r) = <<>>
        /\ pc[r] \in {"Logged", "Panicked"} => Len(LogOf(r)) = 1

\* C5: the underlying writer receives exactly the WriteHeader and Write
\* calls the handler made, in order and with the same arguments, each Write
\* returns to the handler what the underlying writer returned, and the
\* handler is invoked once, with the original request.
C5_Transparent ==
    \A r \in Requests :
        /\ uw[r].calls = hCalls[r]
        /\ pc[r] = "Start" => invoked[r] = <<>>
        /\ pc[r] # "Start" => invoked[r] = <<req[r]>>

\* a logged request whose handler set a status and had a Write fail
C5_Witness ==
    \E r \in Requests :
        /\ pc[r] = "Logged"
        /\ Len(hCalls[r]) = 2
        /\ hCalls[r][1].op = "WriteHeader"
        /\ hCalls[r][2].op = "Write" /\ hCalls[r][2].err # "nil"

\* C6: a header the handler sets through the decorating writer is set on
\* the underlying writer, and the request is not aborted by it.
C6_HeaderForwarded ==
    \A r \in Requests :
        hdrSet[r] # {} => (hdrSet[r] \subseteq uw[r].header /\ pc[r] # "Panicked")

\* C7: requests served concurrently that all reach the log produce one
\* record each, and every field of a record comes from its own request:
\* method and path from its request, status from its recorder, and a body
\* whose buffer the handler of another request filled last still reads as
\* the bytes its own handler wrote.
C7_IndependentRecords ==
    /\ (\A r \in Requests : pc[r] = "Logged") => Len(log) = NumRequests
    /\ \A i \in DOMAIN log :
          LET r == log[i].req IN
          /\ log[i].method = req[r].Method
          /\ log[i].path = req[r].RequestURI
          /\ log[i].status_code = rec[r].StatusCode
          /\ log[i].status_text = StatusText(rec[r].StatusCode)
          /\ (log[i].hasBody /\ rec[r].body.buf # 0 /\ log[i].bodyFrom # r) =>
                log[i].body = Writes(hCalls[r])[Len(Writes(hCalls[r]))].bytes

\* C8: a panic raised while the handler runs leaves HttpLogger as it was
\* raised, the result of a Write is the underlying writer's result, and
\* the handler is never invoked a second time.
C8_FailuresPassThrough ==
    \A r \in Requests :
        /\ propagated[r] = raised[r]
        /\ raised[r] # "none" => pc[r] = "Panicked"
        /\ Len(invoked[r]) <= 1
        /\ \A j \in DOMAIN hCalls[r] :
              hCalls[r][j].op = "Write" =>
                 /\ j \in DOMAIN uw[r].calls
                 /\ hCalls[r][j].n = uw[r].calls[j].n
                 /\ hCalls[r][j].err = uw[r].calls[j].err

\* a handler that had a Write fail and then panicked
C8_Witness ==
    \E r \in Requests :
        /\ raised[r] = "handler panic"
        /\ pc[r] = "Panicked"
        /\ \E j \in DOMAIN hCalls[r] : hCalls[r][j].op = "Write" /\ hCalls[r][j].err # "nil"

\* the reason phrases of RFC 9110 for the codes of the model
ReasonPhrase ==
    [c \in Statuses |->
        CASE c = 200 -> "OK"
          [] c = 201 -> "Created"
          [] c = 302 -> "Found"
          [] c = 500 -> "Internal Server Error"]

\* C9: a record is at informational severity exactly when its status code,
\* the recorded one, is 200, at error severity otherwise, and its
\* status_text is the standard text of that code.
C9_Severity ==
    \A i \in DOMAIN log :
        /\ log[i].status_code = rec[log[i].req].StatusCode
        /\ log[i].level = "info" <=> log[i].status_code = 200
        /\ log[i].status_code # 200 => log[i].level = "error"
        /\ log[i].status_text = ReasonPhrase[log[i].status_code]

\* a 201 has been logged, at error severity
C9_Witness ==
    \E i \in DOMAIN log : log[i].status_code = 201 /\ log[i].level = "error"

\* C10: a GET request whose path starts with "/static/" is served by the
\* file server, which sees the path without the "/static" prefix.
C10_StaticToFileServer ==
    (rt.phase = "served" /\ rt.method = "GET" /\ HasPrefix(rt.path, "/static/"))
    => (rt.out.kind = "fileServer" /\ rt.out.path = TrimPrefix(rt.path, "/static"))
====
